---- MODULE Spec2Model ----
(***************************************************************************)
(* A model of the payment-stream contract                                  *)
(* (contracts/stream_contract/src/lib.rs).                                 *)
(*                                                                         *)
(* Every public operation of the contract is one action.  An operation     *)
(* that returns Err or panics (failed authorisation, failed token          *)
(* transfer) commits nothing: the host rolls the invocation back.          *)
(* Option<T> values are sequences of length 0 (None) or 1 (Some).          *)
(***************************************************************************)
EXTENDS Integers, Sequences, FiniteSets, TLC

\* ---------------------------------------------------------------- bounds
MaxTime == 3
MaxStreams == 2
MaxCalls == 3
InitBalance == 20

\* ------------------------------------------------------ program constants
MAX_FEE_RATE_BPS == 1000
BPS_DENOMINATOR == 10000
\* i128::MAX, scaled to a 31-bit signed word so that the checker's integers
\* can carry the overflow cases of checked_mul and saturating_sub.
I128_MAX == 1073741823
I128_MIN == -I128_MAX - 1

\* ------------------------------------------------------------ environment
Addr == {"alice", "bob", "carol"}
Contract == "contract"
Token == "token"
\* The inputs the operations are called with.
\* <<admin, treasury, fee_rate_bps>>
InitInputs ==
    {<<"carol", "carol", 1000>>, <<"alice", "bob", 0>>, <<"carol", "carol", 1001>>}
UpdateInputs ==
    {<<"carol", Contract, 1000>>, <<"carol", "bob", 1001>>,
     <<"alice", "alice", 1000>>, <<"alice", "alice", 1001>>}
\* <<sender, recipient, token_address, amount, duration>>
CreateInputs ==
    {<<"alice", "bob", Token, 10, 2>>, <<"alice", "bob", Token, 10, 3>>,
     <<"alice", "bob", Token, 0, 0>>, <<"alice", "bob", "alice", 10, 0>>,
     <<"alice", "bob", "alice", 10, 2>>}
StreamIds == {1, 2}
\* <<sender, stream_id, amount>>
TopUpInputs == ({"alice"} \X StreamIds \X {0, 10}) \cup {<<"bob", 1, 10>>}
\* <<caller, stream_id>>
WithdrawInputs == ({"bob"} \X StreamIds) \cup {<<"alice", 1>>}
CancelInputs == ({"alice"} \X StreamIds) \cup {<<"bob", 1>>}

VARIABLES
    config,          \* Option<ProtocolConfig>: the singleton in storage
    streams,         \* stream_id -> Stream: the persistent stream records
    stream_counter,  \* the last stream id handed out (storage counter)
    balance,         \* token ledger: holder -> amount of Token
    now,             \* env.ledger().timestamp()
    last,            \* the last invocation: inputs, result, transfers made
    hist,            \* stream_id -> creation parameters and top-up flag
    calls            \* number of invocations committed so far

vars == <<config, streams, stream_counter, balance, now, last, hist, calls>>

Errors ==
    {"AlreadyInitialized", "NotInitialized", "NotAdmin", "InvalidFeeRate",
     "InvalidAmount", "InvalidDuration", "InvalidTokenAddress",
     "StreamNotFound", "Unauthorized", "StreamInactive"}

\* ------------------------------------------------------------- arithmetic
Min(a, b) == IF a <= b THEN a ELSE b

\* Rust's integer division truncates toward zero.
TruncDiv(a, b) ==
    IF (a >= 0) = (b > 0) THEN (IF a >= 0 THEN a ELSE -a) \div (IF b > 0 THEN b ELSE -b)
    ELSE -((IF a >= 0 THEN a ELSE -a) \div (IF b > 0 THEN b ELSE -b))

\* u64::saturating_sub
saturating_sub_u64(a, b) == IF a >= b THEN a - b ELSE 0

\* i128::saturating_sub and saturating_add: clamp to the representable range
Clamp(x) == IF x > I128_MAX THEN I128_MAX ELSE IF x < I128_MIN THEN I128_MIN ELSE x
saturating_sub(a, b) == Clamp(a - b)
saturating_add(a, b) == Clamp(a + b)

\* i128::checked_mul(a, b).unwrap_or(i128::MAX), for a >= 0
checked_mul_or_max(a, b) ==
    IF a = 0 \/ b = 0 THEN 0
    ELSE IF b > 0 /\ a > I128_MAX \div b THEN I128_MAX
    ELSE IF b < 0 /\ a > (-(I128_MIN \div b)) THEN I128_MAX
    ELSE a * b

\* ---------------------------------------------------------------- storage
config_exists == config # <<>>
try_load_config == config
\* load_config / load_stream: Some(record), or None where the caller's `?`
\* returns NotInitialized / StreamNotFound
load_config == try_load_config
try_load_stream(stream_id) ==
    IF stream_id \in DOMAIN streams THEN <<streams[stream_id]>> ELSE <<>>
load_stream(stream_id) == try_load_stream(stream_id)
save_stream(stream_id, stream) ==
    [i \in DOMAIN streams \cup {stream_id} |->
        IF i = stream_id THEN stream ELSE streams[i]]
next_stream_id == stream_counter + 1

\* ------------------------------------------------------------------ token
can_transfer(bal, from, amount) == amount >= 0 /\ bal[from] >= amount
transfer(bal, from, to, amount) ==
    [bal EXCEPT ![from] = @ - amount, ![to] = @ + amount]

\* ---------------------------------------------------------------- helpers
validate_token_contract(token_address) ==
    IF token_address = Token THEN "Ok" ELSE "InvalidTokenAddress"

\* Variant: the ownership check is missing.
validate_stream_ownership_skipped(stream, caller) == "Ok"

validate_stream_ownership(stream, caller) ==
    IF stream.sender # caller THEN "Unauthorized" ELSE "Ok"

\* Variant: the active check is missing.
validate_stream_active_skipped(stream) == "Ok"

validate_stream_active(stream) ==
    IF ~stream.is_active THEN "StreamInactive" ELSE "Ok"

\* Variant: the accrual is not capped by the remaining balance.
calculate_claimable_no_cap(stream, t) ==
    checked_mul_or_max(saturating_sub_u64(t, stream.last_update_time),
                       stream.rate_per_second)

calculate_claimable(stream, t) ==
    LET elapsed == saturating_sub_u64(t, stream.last_update_time)
        streamed == checked_mul_or_max(elapsed, stream.rate_per_second)
        remaining == saturating_sub(stream.deposited_amount, stream.withdrawn_amount)
    IN  Min(streamed, remaining)

\* Variant: the fee is paid to the treasury but not deducted from the deposit.
collect_fee_no_deduct(bal, amount) ==
    IF try_load_config # <<>> /\ try_load_config[1].fee_rate_bps > 0
    THEN LET cfg == try_load_config[1]
             fee == TruncDiv(amount * cfg.fee_rate_bps, BPS_DENOMINATOR)
         IN  [net |-> amount,
              fee |-> fee,
              bal |-> IF fee > 0 THEN transfer(bal, Contract, cfg.treasury, fee) ELSE bal]
    ELSE [net |-> amount, fee |-> 0, bal |-> bal]

\* The fee on `amount` under the stored config, the net amount, and the
\* ledger after the fee has gone from custody to the treasury.
collect_fee(bal, amount) ==
    IF try_load_config # <<>> /\ try_load_config[1].fee_rate_bps > 0
    THEN LET cfg == try_load_config[1]
             fee == TruncDiv(amount * cfg.fee_rate_bps, BPS_DENOMINATOR)
         IN  [net |-> amount - fee,
              fee |-> fee,
              bal |-> IF fee > 0 THEN transfer(bal, Contract, cfg.treasury, fee) ELSE bal]
    ELSE [net |-> amount, fee |-> 0, bal |-> bal]

\* Variant: a fully drained stream is left active.
transfer_and_update_stream_no_close(bal, stream, recipient, amount, t) ==
    [bal |-> transfer(bal, Contract, recipient, amount),
     stream |-> [stream EXCEPT !.withdrawn_amount = @ + amount,
                               !.last_update_time = t]]

\* Variant: the withdrawal does not move last_update_time.
transfer_and_update_stream_keep_time(bal, stream, recipient, amount, t) ==
    LET s1 == [stream EXCEPT !.withdrawn_amount = @ + amount]
    IN  [bal |-> transfer(bal, Contract, recipient, amount),
         stream |-> IF s1.withdrawn_amount >= s1.deposited_amount
                    THEN [s1 EXCEPT !.is_active = FALSE]
                    ELSE s1]

\* Variant: the protocol fee is also taken from what the recipient is paid.
transfer_and_update_stream_with_fee(bal, stream, recipient, amount, t) ==
    LET s1 == [stream EXCEPT !.withdrawn_amount = @ + amount,
                             !.last_update_time = t]
        fee == IF try_load_config = <<>> THEN 0
               ELSE TruncDiv(amount * try_load_config[1].fee_rate_bps, BPS_DENOMINATOR)
        paid == transfer(bal, Contract, recipient, amount - fee)
    IN  [bal |-> IF fee > 0
                 THEN transfer(paid, Contract, try_load_config[1].treasury, fee)
                 ELSE paid,
         stream |-> IF s1.withdrawn_amount >= s1.deposited_amount
                    THEN [s1 EXCEPT !.is_active = FALSE]
                    ELSE s1]

transfer_and_update_stream(bal, stream, recipient, amount, t) ==
    LET s1 == [stream EXCEPT !.withdrawn_amount = @ + amount,
                             !.last_update_time = t]
    IN  [bal |-> transfer(bal, Contract, recipient, amount),
         stream |-> IF s1.withdrawn_amount >= s1.deposited_amount
                    THEN [s1 EXCEPT !.is_active = FALSE]
                    ELSE s1]

\* ---------------------------------------------------------------- queries
get_fee_config == try_load_config
get_stream(stream_id) == try_load_stream(stream_id)
get_claimable_amount(stream_id) ==
    IF try_load_stream(stream_id) = <<>> THEN <<>>
    ELSE IF ~streams[stream_id].is_active THEN <<0>>
    ELSE <<calculate_claimable(streams[stream_id], now)>>

\* ------------------------------------------------------- invocation record
\* rep: the call repeats the one before it (same operation, caller and stream,
\* nothing in between, the clock not advanced), and that one returned Ok.
Call(op, caller, id, amount, duration, bps, res, pre, paid, refund, fee, rep) ==
    [op |-> op, caller |-> caller, id |-> id, amount |-> amount,
     duration |-> duration, bps |-> bps, res |-> res, pre |-> pre,
     paid |-> paid, refund |-> refund, fee |-> fee, rep |-> rep]

\* What a handler leaves when it returns: its result, the storage and the
\* token ledger as written up to the return, the id it returns or works on,
\* and the amounts it transferred to the recipient, the sender, the treasury.
Outcome(res, cfg, strs, counter, bal, id, paid, refund, fee) ==
    [res |-> res, config |-> cfg, streams |-> strs, stream_counter |-> counter,
     balance |-> bal, id |-> id, paid |-> paid, refund |-> refund, fee |-> fee]

\* A return before anything was written or transferred.
Untouched(res, id) ==
    Outcome(res, config, streams, stream_counter, balance, id, 0, 0, 0)

Init ==
    /\ config = <<>>
    /\ streams = <<>>
    /\ stream_counter = 0
    /\ balance = [h \in Addr \cup {Contract} |-> IF h = Contract THEN 0 ELSE InitBalance]
    /\ now = 0
    /\ last = Call("deploy", Contract, 0, 0, 0, 0, "Ok", <<>>, 0, 0, 0, FALSE)
    /\ hist = <<>>
    /\ calls = 0

\* --------------------------------------------------------- administration
\* Variant: initialize does not check for an existing config.
initialize_run_again(admin, treasury, fee_rate_bps) ==
    IF fee_rate_bps > MAX_FEE_RATE_BPS THEN Untouched("InvalidFeeRate", 0)
    ELSE Outcome("Ok",
                 <<[admin |-> admin, treasury |-> treasury,
                    fee_rate_bps |-> fee_rate_bps]>>,
                 streams, stream_counter, balance, 0, 0, 0, 0)

initialize_run(admin, treasury, fee_rate_bps) ==
    IF config_exists THEN Untouched("AlreadyInitialized", 0)
    ELSE IF fee_rate_bps > MAX_FEE_RATE_BPS THEN Untouched("InvalidFeeRate", 0)
    ELSE Outcome("Ok",
                 <<[admin |-> admin, treasury |-> treasury,
                    fee_rate_bps |-> fee_rate_bps]>>,
                 streams, stream_counter, balance, 0, 0, 0, 0)

\* Variant: the fee rate is checked before the caller.
update_fee_config_run_rate_first(admin, treasury, fee_rate_bps) ==
    IF load_config = <<>> THEN Untouched("NotInitialized", 0)
    ELSE IF fee_rate_bps > MAX_FEE_RATE_BPS THEN Untouched("InvalidFeeRate", 0)
    ELSE IF load_config[1].admin # admin THEN Untouched("NotAdmin", 0)
    ELSE Outcome("Ok",
                 <<[admin |-> load_config[1].admin, treasury |-> treasury,
                    fee_rate_bps |-> fee_rate_bps]>>,
                 streams, stream_counter, balance, 0, 0, 0, 0)

update_fee_config_run(admin, treasury, fee_rate_bps) ==
    IF load_config = <<>> THEN Untouched("NotInitialized", 0)
    ELSE IF load_config[1].admin # admin THEN Untouched("NotAdmin", 0)
    ELSE IF fee_rate_bps > MAX_FEE_RATE_BPS THEN Untouched("InvalidFeeRate", 0)
    ELSE Outcome("Ok",
                 <<[admin |-> load_config[1].admin, treasury |-> treasury,
                    fee_rate_bps |-> fee_rate_bps]>>,
                 streams, stream_counter, balance, 0, 0, 0, 0)

\* ------------------------------------------------------- stream operations
\* Variant: the advanced stream-id counter is not written back.
create_stream_run_counter_kept(sender, recipient, token_address, amount, duration) ==
    IF amount <= 0 THEN Untouched("InvalidAmount", 0)
    ELSE IF duration = 0 THEN Untouched("InvalidDuration", 0)
    ELSE IF validate_token_contract(token_address) # "Ok"
    THEN Untouched("InvalidTokenAddress", 0)
    ELSE
        LET stream_id == next_stream_id
            start_time == now
        IN  IF ~can_transfer(balance, sender, amount) THEN Untouched("Trap", 0)
            ELSE
            LET cf == collect_fee(transfer(balance, sender, Contract, amount), amount)
                net_amount == cf.net
                stream == [sender |-> sender,
                           recipient |-> recipient,
                           token_address |-> token_address,
                           rate_per_second |-> TruncDiv(net_amount, duration),
                           deposited_amount |-> net_amount,
                           withdrawn_amount |-> 0,
                           start_time |-> start_time,
                           last_update_time |-> start_time,
                           is_active |-> TRUE]
            IN  Outcome("Ok", config, save_stream(stream_id, stream), stream_counter,
                        cf.bal, stream_id, 0, 0, cf.fee)

\* Variant: the rate is rounded up instead of truncated.
create_stream_run_rate_up(sender, recipient, token_address, amount, duration) ==
    IF amount <= 0 THEN Untouched("InvalidAmount", 0)
    ELSE IF duration = 0 THEN Untouched("InvalidDuration", 0)
    ELSE IF validate_token_contract(token_address) # "Ok"
    THEN Untouched("InvalidTokenAddress", 0)
    ELSE
        LET stream_id == next_stream_id
            start_time == now
        IN  IF ~can_transfer(balance, sender, amount) THEN Untouched("Trap", 0)
            ELSE
            LET cf == collect_fee(transfer(balance, sender, Contract, amount), amount)
                net_amount == cf.net
                stream == [sender |-> sender,
                           recipient |-> recipient,
                           token_address |-> token_address,
                           rate_per_second |->
                               TruncDiv(net_amount + duration - 1, duration),
                           deposited_amount |-> net_amount,
                           withdrawn_amount |-> 0,
                           start_time |-> start_time,
                           last_update_time |-> start_time,
                           is_active |-> TRUE]
            IN  Outcome("Ok", config, save_stream(stream_id, stream), stream_id,
                        cf.bal, stream_id, 0, 0, cf.fee)

create_stream_run(sender, recipient, token_address, amount, duration) ==
    IF amount <= 0 THEN Untouched("InvalidAmount", 0)
    ELSE IF duration = 0 THEN Untouched("InvalidDuration", 0)
    ELSE IF validate_token_contract(token_address) # "Ok"
    THEN Untouched("InvalidTokenAddress", 0)
    ELSE
        LET stream_id == next_stream_id
            start_time == now
        IN  IF ~can_transfer(balance, sender, amount) THEN Untouched("Trap", 0)
            ELSE
            LET cf == collect_fee(transfer(balance, sender, Contract, amount), amount)
                net_amount == cf.net
                rate_per_second == TruncDiv(net_amount, duration)
                stream == [sender |-> sender,
                           recipient |-> recipient,
                           token_address |-> token_address,
                           rate_per_second |-> rate_per_second,
                           deposited_amount |-> net_amount,
                           withdrawn_amount |-> 0,
                           start_time |-> start_time,
                           last_update_time |-> start_time,
                           is_active |-> TRUE]
            IN  Outcome("Ok", config, save_stream(stream_id, stream), stream_id,
                        cf.bal, stream_id, 0, 0, cf.fee)

\* Variant: the tokens are taken from the sender before the stream is checked
\* to be active.
top_up_stream_run_transfer_first(sender, stream_id, amount) ==
    IF amount <= 0 THEN Untouched("InvalidAmount", stream_id)
    ELSE IF load_stream(stream_id) = <<>> THEN Untouched("StreamNotFound", stream_id)
    ELSE
        LET stream == load_stream(stream_id)[1]
        IN  IF validate_stream_ownership(stream, sender) # "Ok"
            THEN Untouched("Unauthorized", stream_id)
            ELSE IF ~can_transfer(balance, sender, amount)
            THEN Untouched("Trap", stream_id)
            ELSE
            LET taken == transfer(balance, sender, Contract, amount)
                cf == collect_fee(taken, amount)
                updated == [stream EXCEPT !.deposited_amount = @ + cf.net,
                                          !.last_update_time = now]
            IN  IF validate_stream_active(stream) # "Ok"
                THEN Outcome("StreamInactive", config, streams, stream_counter,
                             taken, stream_id, 0, 0, 0)
                ELSE Outcome("Ok", config, save_stream(stream_id, updated),
                             stream_counter, cf.bal, stream_id, 0, 0, cf.fee)

\* Variant: the top-up does not move last_update_time.
top_up_stream_run_keep_time(sender, stream_id, amount) ==
    IF amount <= 0 THEN Untouched("InvalidAmount", stream_id)
    ELSE IF load_stream(stream_id) = <<>> THEN Untouched("StreamNotFound", stream_id)
    ELSE
        LET stream == load_stream(stream_id)[1]
        IN  IF validate_stream_ownership(stream, sender) # "Ok"
            THEN Untouched("Unauthorized", stream_id)
            ELSE IF validate_stream_active(stream) # "Ok"
            THEN Untouched("StreamInactive", stream_id)
            ELSE IF ~can_transfer(balance, sender, amount)
            THEN Untouched("Trap", stream_id)
            ELSE
            LET cf == collect_fee(transfer(balance, sender, Contract, amount), amount)
                updated == [stream EXCEPT !.deposited_amount = @ + cf.net]
            IN  Outcome("Ok", config, save_stream(stream_id, updated), stream_counter,
                        cf.bal, stream_id, 0, 0, cf.fee)

\* Variant: the top-up first pays the recipient what had accrued.
top_up_stream_run_settle_first(sender, stream_id, amount) ==
    IF amount <= 0 THEN Untouched("InvalidAmount", stream_id)
    ELSE IF load_stream(stream_id) = <<>> THEN Untouched("StreamNotFound", stream_id)
    ELSE
        LET stream == load_stream(stream_id)[1]
            accrued == calculate_claimable(stream, now)
        IN  IF validate_stream_ownership(stream, sender) # "Ok"
            THEN Untouched("Unauthorized", stream_id)
            ELSE IF validate_stream_active(stream) # "Ok"
            THEN Untouched("StreamInactive", stream_id)
            ELSE IF ~can_transfer(balance, sender, amount)
            THEN Untouched("Trap", stream_id)
            ELSE
            LET cf == collect_fee(transfer(balance, sender, Contract, amount), amount)
                updated == [stream EXCEPT !.deposited_amount = @ + cf.net,
                                          !.withdrawn_amount = @ + accrued,
                                          !.last_update_time = now]
            IN  Outcome("Ok", config, save_stream(stream_id, updated), stream_counter,
                        transfer(cf.bal, Contract, stream.recipient, accrued),
                        stream_id, accrued, 0, cf.fee)

top_up_stream_run(sender, stream_id, amount) ==
    IF amount <= 0 THEN Untouched("InvalidAmount", stream_id)
    ELSE IF load_stream(stream_id) = <<>> THEN Untouched("StreamNotFound", stream_id)
    ELSE
        LET stream == load_stream(stream_id)[1]
        IN  IF validate_stream_ownership(stream, sender) # "Ok"
            THEN Untouched("Unauthorized", stream_id)
            ELSE IF validate_stream_active(stream) # "Ok"
            THEN Untouched("StreamInactive", stream_id)
            ELSE IF ~can_transfer(balance, sender, amount)
            THEN Untouched("Trap", stream_id)
            ELSE
            LET cf == collect_fee(transfer(balance, sender, Contract, amount), amount)
                updated == [stream EXCEPT !.deposited_amount = @ + cf.net,
                                          !.last_update_time = now]
            IN  Outcome("Ok", config, save_stream(stream_id, updated), stream_counter,
                        cf.bal, stream_id, 0, 0, cf.fee)

withdraw_run(recipient, stream_id) ==
    IF load_stream(stream_id) = <<>> THEN Untouched("StreamNotFound", stream_id)
    ELSE
        LET stream == load_stream(stream_id)[1]
            claimable == calculate_claimable(stream, now)
        IN  IF stream.recipient # recipient THEN Untouched("Unauthorized", stream_id)
            ELSE IF validate_stream_active(stream) # "Ok"
            THEN Untouched("StreamInactive", stream_id)
            ELSE IF claimable <= 0 THEN Untouched("InvalidAmount", stream_id)
            ELSE IF ~can_transfer(balance, Contract, claimable)
            THEN Untouched("Trap", stream_id)
            ELSE
            LET upd == transfer_and_update_stream(balance, stream, recipient,
                                                  claimable, now)
            IN  Outcome("Ok", config, save_stream(stream_id, upd.stream),
                        stream_counter, upd.bal, stream_id, claimable, 0, 0)

\* Variant: the refund is computed before the recipient's settlement is added.
cancel_settlement_refund_first(stream, t) ==
    LET accrued_amount == calculate_claimable(stream, t)
        refunded_amount == saturating_sub(stream.deposited_amount,
                                          stream.withdrawn_amount)
        settled == IF accrued_amount > 0
                   THEN [stream EXCEPT !.withdrawn_amount =
                                           saturating_add(@, accrued_amount)]
                   ELSE stream
    IN  [paid |-> IF accrued_amount > 0 THEN accrued_amount ELSE 0,
         refund |-> IF refunded_amount > 0 THEN refunded_amount ELSE 0,
         stream |-> [settled EXCEPT !.is_active = FALSE, !.last_update_time = t]]

\* Variant: the cancelled stream is saved without being marked inactive.
cancel_settlement_keep_active(stream, t) ==
    LET accrued_amount == calculate_claimable(stream, t)
        settled == IF accrued_amount > 0
                   THEN [stream EXCEPT !.withdrawn_amount =
                                           saturating_add(@, accrued_amount)]
                   ELSE stream
        refunded_amount == saturating_sub(settled.deposited_amount,
                                          settled.withdrawn_amount)
    IN  [paid |-> IF accrued_amount > 0 THEN accrued_amount ELSE 0,
         refund |-> IF refunded_amount > 0 THEN refunded_amount ELSE 0,
         stream |-> [settled EXCEPT !.last_update_time = t]]

\* Variant: the refund is taken off deposited_amount.
cancel_settlement_trim_deposit(stream, t) ==
    LET accrued_amount == calculate_claimable(stream, t)
        settled == IF accrued_amount > 0
                   THEN [stream EXCEPT !.withdrawn_amount =
                                           saturating_add(@, accrued_amount)]
                   ELSE stream
        refunded_amount == saturating_sub(settled.deposited_amount,
                                          settled.withdrawn_amount)
    IN  [paid |-> IF accrued_amount > 0 THEN accrued_amount ELSE 0,
         refund |-> IF refunded_amount > 0 THEN refunded_amount ELSE 0,
         stream |-> [settled EXCEPT !.is_active = FALSE, !.last_update_time = t,
                                    !.deposited_amount = settled.withdrawn_amount]]

\* The settlement of cancel_stream on the loaded record at time t: what the
\* recipient is paid, what the sender is refunded, and the record saved.
cancel_settlement(stream, t) ==
    LET accrued_amount == calculate_claimable(stream, t)
        settled == IF accrued_amount > 0
                   THEN [stream EXCEPT !.withdrawn_amount =
                                           saturating_add(@, accrued_amount)]
                   ELSE stream
        refunded_amount == saturating_sub(settled.deposited_amount,
                                          settled.withdrawn_amount)
    IN  [paid |-> IF accrued_amount > 0 THEN accrued_amount ELSE 0,
         refund |-> IF refunded_amount > 0 THEN refunded_amount ELSE 0,
         stream |-> [settled EXCEPT !.is_active = FALSE, !.last_update_time = t]]

\* Variant: the sender's refund is not transferred.
cancel_stream_run_no_refund(sender, stream_id) ==
    IF load_stream(stream_id) = <<>> THEN Untouched("StreamNotFound", stream_id)
    ELSE
        LET stream == load_stream(stream_id)[1]
            st == cancel_settlement(stream, now)
        IN  IF validate_stream_ownership(stream, sender) # "Ok"
            THEN Untouched("Unauthorized", stream_id)
            ELSE IF validate_stream_active(stream) # "Ok"
            THEN Untouched("StreamInactive", stream_id)
            ELSE IF ~can_transfer(balance, Contract, st.paid)
            THEN Untouched("Trap", stream_id)
            ELSE Outcome("Ok", config, save_stream(stream_id, st.stream),
                         stream_counter,
                         transfer(balance, Contract, stream.recipient, st.paid),
                         stream_id, st.paid, 0, 0)

cancel_stream_run(sender, stream_id) ==
    IF load_stream(stream_id) = <<>> THEN Untouched("StreamNotFound", stream_id)
    ELSE
        LET stream == load_stream(stream_id)[1]
            st == cancel_settlement(stream, now)
        IN  IF validate_stream_ownership(stream, sender) # "Ok"
            THEN Untouched("Unauthorized", stream_id)
            ELSE IF validate_stream_active(stream) # "Ok"
            THEN Untouched("StreamInactive", stream_id)
            ELSE IF ~can_transfer(balance, Contract, st.paid + st.refund)
            THEN Untouched("Trap", stream_id)
            ELSE Outcome("Ok", config, save_stream(stream_id, st.stream),
                         stream_counter,
                         transfer(transfer(balance, Contract, stream.recipient, st.paid),
                                  Contract, sender, st.refund),
                         stream_id, st.paid, st.refund, 0)

\* ------------------------------------------------------------ invocations
\* One invocation of a handler whose run left `out`.  A panic (Trap) is
\* rolled back by the host; any other return commits what the handler wrote.
Invoke(op, caller, id, amount, duration, bps, out) ==
    /\ out.res = "Ok" => calls < MaxCalls
    /\ IF out.res = "Trap"
       THEN UNCHANGED <<config, streams, stream_counter, balance>>
       ELSE /\ config' = out.config
            /\ streams' = out.streams
            /\ stream_counter' = out.stream_counter
            /\ balance' = out.balance
    /\ calls' = IF out.res = "Ok" THEN calls + 1 ELSE calls
    /\ last' = Call(op, caller, out.id, amount, duration, bps, out.res,
                    try_load_stream(id), out.paid, out.refund, out.fee,
                    last.op = op /\ last.caller = caller /\ last.id = id
                    /\ last.res = "Ok")
    /\ hist' = IF out.res = "Ok" /\ op = "create_stream"
               THEN [i \in DOMAIN hist \cup {out.id} |->
                        IF i = out.id
                        THEN [net |-> out.streams[out.id].deposited_amount,
                              duration |-> duration, topped |-> FALSE]
                        ELSE hist[i]]
               ELSE IF out.res = "Ok" /\ op = "top_up_stream"
               THEN [hist EXCEPT ![id].topped = TRUE]
               ELSE hist
    /\ UNCHANGED now

initialize(admin, treasury, fee_rate_bps) ==
    Invoke("initialize", admin, 0, 0, 0, fee_rate_bps,
           initialize_run(admin, treasury, fee_rate_bps))

update_fee_config(admin, treasury, fee_rate_bps) ==
    Invoke("update_fee_config", admin, 0, 0, 0, fee_rate_bps,
           update_fee_config_run(admin, treasury, fee_rate_bps))

create_stream(sender, recipient, token_address, amount, duration) ==
    /\ stream_counter < MaxStreams
    /\ Invoke("create_stream", sender, 0, amount, duration, 0,
              create_stream_run(sender, recipient, token_address, amount, duration))

top_up_stream(sender, stream_id, amount) ==
    Invoke("top_up_stream", sender, stream_id, amount, 0, 0,
           top_up_stream_run(sender, stream_id, amount))

withdraw(recipient, stream_id) ==
    Invoke("withdraw", recipient, stream_id, 0, 0, 0,
           withdraw_run(recipient, stream_id))

cancel_stream(sender, stream_id) ==
    Invoke("cancel_stream", sender, stream_id, 0, 0, 0,
           cancel_stream_run(sender, stream_id))

\* require_auth() of an address that did not sign panics before the handler
\* reads anything; the host rolls the invocation back.
AuthPanic ==
    /\ last' = Call("require_auth", Contract, 0, 0, 0, 0, "Trap", <<>>, 0, 0, 0, FALSE)
    /\ UNCHANGED <<config, streams, stream_counter, balance, now, hist, calls>>

\* ------------------------------------------------------------------ clock
Tick ==
    /\ now < MaxTime
    /\ now' = now + 1
    /\ last' = Call("tick", Contract, 0, 0, 0, 0, "Ok", <<>>, 0, 0, 0, FALSE)
    /\ UNCHANGED <<config, streams, stream_counter, balance, hist, calls>>

Next ==
    \/ \E i \in InitInputs : initialize(i[1], i[2], i[3])
    \/ \E i \in UpdateInputs : update_fee_config(i[1], i[2], i[3])
    \/ \E i \in CreateInputs : create_stream(i[1], i[2], i[3], i[4], i[5])
    \/ \E i \in TopUpInputs : top_up_stream(i[1], i[2], i[3])
    \/ \E i \in WithdrawInputs : withdraw(i[1], i[2])
    \/ \E i \in CancelInputs : cancel_stream(i[1], i[2])
    \/ AuthPanic
    \/ Tick

Spec == Init /\ [][Next]_vars
\* ------------------------------------------------- one stream, followed long
\* A single stream followed through any number of calls and as far in time
\* as its accrual takes, without a protocol config.
LateTime == 3
\* <<sender, recipient, token_address, amount, duration>>: a stream whose rate
\* leaves a remainder, and one whose net amount is smaller than its duration.
SoloCreateInputs ==
    {<<"alice", "bob", Token, 10, 3>>, <<"alice", "bob", Token, 1, 2>>}
SoloTopUpAmount == 10

\* One invocation of a handler whose run left `out`, as in Invoke, not
\* counted against the call budget.
Commit(op, caller, id, amount, duration, bps, out) ==
    /\ IF out.res = "Trap"
       THEN UNCHANGED <<config, streams, stream_counter, balance>>
       ELSE /\ config' = out.config
            /\ streams' = out.streams
            /\ stream_counter' = out.stream_counter
            /\ balance' = out.balance
    /\ last' = Call(op, caller, out.id, amount, duration, bps, out.res,
                    try_load_stream(id), out.paid, out.refund, out.fee,
                    last.op = op /\ last.caller = caller /\ last.id = id
                    /\ last.res = "Ok")
    /\ hist' = IF out.res = "Ok" /\ op = "create_stream"
               THEN [i \in DOMAIN hist \cup {out.id} |->
                        IF i = out.id
                        THEN [net |-> out.streams[out.id].deposited_amount,
                              duration |-> duration, topped |-> FALSE]
                        ELSE hist[i]]
               ELSE IF out.res = "Ok" /\ op = "top_up_stream"
               THEN [hist EXCEPT ![id].topped = TRUE]
               ELSE hist
    /\ UNCHANGED <<now, calls>>

SoloCreate ==
    /\ stream_counter = 0
    /\ \E i \in SoloCreateInputs :
          Commit("create_stream", i[1], 0, i[4], i[5], 0,
                 create_stream_run(i[1], i[2], i[3], i[4], i[5]))

SoloTopUp ==
    Commit("top_up_stream", "alice", 1, SoloTopUpAmount, 0, 0,
           top_up_stream_run("alice", 1, SoloTopUpAmount))

SoloWithdraw ==
    Commit("withdraw", "bob", 1, 0, 0, 0, withdraw_run("bob", 1))

SoloCancel ==
    Commit("cancel_stream", "alice", 1, 0, 0, 0, cancel_stream_run("alice", 1))

\* The clock: it advances freely up to LateTime, and beyond that for as long
\* as an active stream with a positive rate has not accrued all it holds
\* (later timestamps change nothing any operation can observe).
SoloTick ==
    /\ \/ now < LateTime
       \/ \E id \in DOMAIN streams :
             /\ streams[id].is_active
             /\ streams[id].rate_per_second > 0
             /\ calculate_claimable(streams[id], now)
                  < streams[id].deposited_amount - streams[id].withdrawn_amount
    /\ now' = now + 1
    /\ last' = Call("tick", Contract, 0, 0, 0, 0, "Ok", <<>>, 0, 0, 0, FALSE)
    /\ UNCHANGED <<config, streams, stream_counter, balance, hist, calls>>

SoloNext ==
    \/ SoloCreate
    \/ SoloTopUp
    \/ SoloWithdraw
    \/ SoloCancel
    \/ SoloTick

SpecSolo == Init /\ [][SoloNext]_vars

\* The same stream when its sender never cancels, the clock keeps advancing
\* and the recipient keeps withdrawing.
DrainNext ==
    \/ SoloCreate
    \/ SoloTopUp
    \/ SoloWithdraw
    \/ SoloTick

SpecDrain ==
    /\ Init
    /\ [][DrainNext]_vars
    /\ WF_vars(SoloTick)
    /\ WF_vars(SoloWithdraw)

\* ------------------------------------------- calculate_claimable on its own
\* calculate_claimable applied to stream records as the contract stores them
\* (0 <= withdrawn_amount <= deposited_amount, rate_per_second >= 0), up to
\* amounts and rates near the top of the integer range, at timestamps before
\* and after last_update_time.
BigRate == (I128_MAX + 1) \div 2
ClaimableTimes == 0..3
ClaimableStreams ==
    {[sender |-> "alice", recipient |-> "bob", token_address |-> Token,
      rate_per_second |-> r, deposited_amount |-> d, withdrawn_amount |-> w,
      start_time |-> 0, last_update_time |-> u, is_active |-> TRUE] :
        r \in {0, 3, 5, BigRate},
        d \in {0, 10, I128_MAX},
        w \in {0, 4, 10, I128_MAX},
        u \in {0, 2}}

\* The evaluation of calculate_claimable(stream, t), kept in `last`.
Claimable(stream, t) ==
    Call("calculate_claimable", Contract, 1, 0, 0, 0, "Ok", <<stream>>,
         calculate_claimable(stream, t), 0, 0, FALSE)

ClaimableInit ==
    /\ config = <<>>
    /\ \E s \in ClaimableStreams :
          /\ s.withdrawn_amount <= s.deposited_amount
          /\ streams = <<s>>
    /\ stream_counter = 1
    /\ balance = [h \in Addr \cup {Contract} |-> IF h = Contract THEN 0 ELSE InitBalance]
    /\ now \in ClaimableTimes
    /\ last = Claimable(streams[1], now)
    /\ hist = <<>>
    /\ calls = 0

\* The same record evaluated at another timestamp.
ClaimableAt(t) ==
    /\ now' = t
    /\ last' = Claimable(streams[1], t)
    /\ UNCHANGED <<config, streams, stream_counter, balance, hist, calls>>

ClaimableNext == \E t \in ClaimableTimes : ClaimableAt(t)

SpecClaimable == ClaimableInit /\ [][ClaimableNext]_vars

\* ================================================================== claims
Done(op) == last.op = op /\ last.res = "Ok"
\* The fee rate in force, 0 when no config exists.
FeeRateNow == IF config = <<>> THEN 0 ELSE config[1].fee_rate_bps

\* C1: after any sequence of calls every stored stream has deposited_amount
\* >= 0, withdrawn_amount >= 0, withdrawn_amount <= deposited_amount,
\* rate_per_second >= 0, and is inactive whenever withdrawn_amount equals
\* deposited_amount.
C1_StreamInvariants ==
    \A id \in DOMAIN streams :
        LET s == streams[id]
        IN  /\ s.deposited_amount >= 0
            /\ s.withdrawn_amount >= 0
            /\ s.withdrawn_amount <= s.deposited_amount
            /\ s.rate_per_second >= 0
            /\ (s.withdrawn_amount = s.deposited_amount => ~s.is_active)

\* A withdraw has just drained a stream (withdrawn reached deposited).
C1_Witness ==
    /\ Done("withdraw")
    /\ streams[last.id].withdrawn_amount = streams[last.id].deposited_amount
    /\ last.pre[1].withdrawn_amount > 0

\* C2: a successful cancel_stream pays the recipient and refunds the sender
\* exactly deposited_amount minus the withdrawn_amount held before the
\* cancel, and the refund is deposited_amount minus the withdrawn_amount
\* after the recipient's settlement was added.
C2_CancelSettlement ==
    Done("cancel_stream") =>
        /\ last.paid + last.refund
             = last.pre[1].deposited_amount - last.pre[1].withdrawn_amount
        /\ last.refund
             = streams[last.id].deposited_amount - streams[last.id].withdrawn_amount
        /\ streams[last.id].withdrawn_amount
             = last.pre[1].withdrawn_amount + last.paid

\* A cancel that both settled the recipient and refunded the sender, on a
\* stream already withdrawn from.
C2_Witness ==
    /\ Done("cancel_stream")
    /\ last.paid > 0
    /\ last.refund > 0
    /\ last.pre[1].withdrawn_amount > 0

C4_CreateStoresStream ==
    Done("create_stream") =>
        LET s == streams[last.id]
            fee == (last.amount * FeeRateNow) \div 10000
        IN  /\ last.amount > 0
            /\ last.duration > 0
            /\ s.deposited_amount = last.amount - fee
            /\ s.rate_per_second = s.deposited_amount \div last.duration
            /\ s.withdrawn_amount = 0
            /\ s.start_time = now
            /\ s.last_update_time = now
            /\ s.is_active

\* A stream created under a fee, whose rate leaves a remainder.
C4_Witness ==
    /\ Done("create_stream")
    /\ last.fee > 0
    /\ streams[last.id].deposited_amount = 9
    /\ streams[last.id].rate_per_second = 4

\* The case of C5: a successful cancel of a stream never topped up and never
\* withdrawn from, not later than its duration after creation.
C5_Case ==
    /\ Done("cancel_stream")
    /\ ~hist[last.id].topped
    /\ last.pre[1].withdrawn_amount = 0
    /\ now - last.pre[1].start_time <= hist[last.id].duration

\* C5 as stated: such a cancel at elapsed time e pays the recipient
\* floor(D * e / d), refunds the sender D minus that, makes the stream
\* inactive and leaves withdrawn_amount equal to the amount paid.
C5_AsStated ==
    C5_Case =>
        LET D == hist[last.id].net
            d == hist[last.id].duration
            e == now - last.pre[1].start_time
        IN  /\ last.paid = (D * e) \div d
            /\ last.refund = D - last.paid
            /\ ~streams[last.id].is_active
            /\ streams[last.id].withdrawn_amount = last.paid

\* C5 (amended): such a cancel at elapsed time e pays the recipient
\* floor(D / d) * e (the truncated rate times the elapsed time), refunds the
\* sender D minus that, makes the stream inactive and leaves withdrawn_amount
\* equal to the amount paid.
C5_CancelPaysRateTimesElapsed ==
    C5_Case =>
        LET D == hist[last.id].net
            d == hist[last.id].duration
            e == now - last.pre[1].start_time
        IN  /\ last.paid = (D \div d) * e
            /\ last.refund = D - last.paid
            /\ ~streams[last.id].is_active
            /\ streams[last.id].withdrawn_amount = last.paid

\* A cancel part-way through, of a stream whose rate left a remainder.
C5_Witness ==
    /\ C5_Case
    /\ hist[last.id].net = 9
    /\ now - last.pre[1].start_time = 1
    /\ last.paid = 4
    /\ last.refund = 5
\* C6 as stated: after a successful cancel_stream at time t, whatever
\* withdrawals and top-ups preceded it, withdrawn_amount equals
\* min(rate_per_second * (t - start_time), deposited_amount): the recipient
\* has been paid everything vested since the stream started.
C6_AsStated ==
    Done("cancel_stream") =>
        LET s == streams[last.id]
        IN  s.withdrawn_amount
              = Min(s.rate_per_second * (now - s.start_time), s.deposited_amount)

\* C7: an operation that returns an error leaves the config, every stream
\* record, the stream-id counter and every token balance as they were.
C7_ErrorsLeaveStateUnchanged ==
    [][last'.res \in Errors
         => UNCHANGED <<config, streams, stream_counter, balance>>]_vars

\* A top-up of an inactive stream by its sender, who could have paid, was refused.
C7_Witness ==
    /\ last.op = "top_up_stream"
    /\ last.res = "StreamInactive"
    /\ balance[last.caller] >= last.amount

\* What a handler returns when it checks `checks` in order: the error of the
\* first <<failed, error>> pair whose condition holds, else Ok.
RECURSIVE FirstFailing(_)
FirstFailing(checks) ==
    IF checks = <<>> THEN "Ok"
    ELSE IF checks[1][1] THEN checks[1][2]
    ELSE FirstFailing(Tail(checks))

\* C8: top_up_stream returns the first failing of: InvalidAmount (amount <=
\* 0, even for an unknown id), StreamNotFound (no record), Unauthorized
\* (caller is not the recorded sender, even on an inactive stream),
\* StreamInactive.
C8_TopUpErrorOrder ==
    (last.op = "top_up_stream" /\ last.res # "Trap") =>
        last.res = FirstFailing(<<
            <<last.amount <= 0, "InvalidAmount">>,
            <<last.pre = <<>>, "StreamNotFound">>,
            <<last.pre # <<>> /\ last.pre[1].sender # last.caller, "Unauthorized">>,
            <<last.pre # <<>> /\ ~last.pre[1].is_active, "StreamInactive">> >>)

\* A top-up of an inactive stream by someone else than its sender: Unauthorized.
C8_Witness ==
    /\ last.op = "top_up_stream"
    /\ last.amount > 0
    /\ last.pre # <<>>
    /\ ~last.pre[1].is_active
    /\ last.pre[1].sender # last.caller
    /\ last.res = "Unauthorized"

\* C9: withdraw returns the first failing of StreamNotFound, Unauthorized
\* (caller is not the recipient), StreamInactive, InvalidAmount (claimable <=
\* 0); cancel_stream the first failing of StreamNotFound, Unauthorized (caller
\* is not the sender), StreamInactive.  So a withdraw succeeds only for the
\* recipient and a cancel only for the sender.
C9_WithdrawCancelErrorOrder ==
    /\ (last.op = "withdraw" /\ last.res # "Trap") =>
         /\ last.res = FirstFailing(<<
                <<last.pre = <<>>, "StreamNotFound">>,
                <<last.pre # <<>> /\ last.pre[1].recipient # last.caller,
                  "Unauthorized">>,
                <<last.pre # <<>> /\ ~last.pre[1].is_active, "StreamInactive">>,
                <<last.pre # <<>> /\ calculate_claimable(last.pre[1], now) <= 0,
                  "InvalidAmount">> >>)
         /\ last.res = "Ok" => last.caller = last.pre[1].recipient
    /\ (last.op = "cancel_stream" /\ last.res # "Trap") =>
         /\ last.res = FirstFailing(<<
                <<last.pre = <<>>, "StreamNotFound">>,
                <<last.pre # <<>> /\ last.pre[1].sender # last.caller,
                  "Unauthorized">>,
                <<last.pre # <<>> /\ ~last.pre[1].is_active, "StreamInactive">> >>)
         /\ last.res = "Ok" => last.caller = last.pre[1].sender

\* A withdraw from an inactive stream by someone else than its recipient:
\* Unauthorized.
C9_Witness ==
    /\ last.op = "withdraw"
    /\ last.pre # <<>>
    /\ ~last.pre[1].is_active
    /\ last.pre[1].recipient # last.caller
    /\ last.res = "Unauthorized"

\* The rightful party called top_up_stream, withdraw or cancel_stream on an
\* inactive stream.
C10_CallOnInactive ==
    /\ last.op \in {"top_up_stream", "withdraw", "cancel_stream"}
    /\ last.pre # <<>>
    /\ ~last.pre[1].is_active
    /\ last.caller = IF last.op = "withdraw" THEN last.pre[1].recipient
                     ELSE last.pre[1].sender

InactiveClaimableIsZero ==
    \A id \in DOMAIN streams :
        ~streams[id].is_active => get_claimable_amount(id) = <<0>>

\* C10 as stated, for the calls: every top_up_stream, withdraw and
\* cancel_stream by the rightful party on an inactive stream fails with
\* StreamInactive, and get_claimable_amount of an inactive stream is 0.
C10_AsStated ==
    /\ C10_CallOnInactive => last.res = "StreamInactive"
    /\ InactiveClaimableIsZero

\* C10 (amended): once a stream is inactive its record never changes again;
\* every withdraw and cancel_stream by the rightful party, and every
\* top_up_stream with amount > 0 by the sender, fails with StreamInactive (a
\* top_up_stream with amount <= 0 fails with InvalidAmount); and
\* get_claimable_amount returns 0 at every later time.
C10_InactiveIsTerminal ==
    /\ [][\A id \in DOMAIN streams :
            ~streams[id].is_active
              => id \in DOMAIN streams' /\ streams'[id] = streams[id]]_vars
    /\ [](C10_CallOnInactive =>
            last.res = IF last.op = "top_up_stream" /\ last.amount <= 0
                       THEN "InvalidAmount" ELSE "StreamInactive")
    /\ []InactiveClaimableIsZero

\* The sender tried to top up, with a positive amount, a stream that a
\* withdraw had drained, at a later time.
C10_Witness ==
    /\ C10_CallOnInactive
    /\ last.op = "top_up_stream"
    /\ last.amount > 0
    /\ last.res = "StreamInactive"
    /\ last.pre[1].withdrawn_amount = last.pre[1].deposited_amount
    /\ now > last.pre[1].last_update_time

\* C11: the config, once present, has fee_rate_bps <= 1000 and keeps the admin
\* passed to the one successful initialize: a config appears only by a
\* successful initialize, which stores its admin argument; every initialize
\* on an existing config fails with AlreadyInitialized; and no call removes
\* the config or changes its admin (update_fee_config replaces treasury and
\* fee rate only).
C11_ConfigInvariants ==
    /\ [](config # <<>> => config[1].fee_rate_bps <= MAX_FEE_RATE_BPS)
    /\ [][(config = <<>> /\ config' # <<>>)
            => /\ last'.op = "initialize"
               /\ last'.res = "Ok"
               /\ config'[1].admin = last'.caller]_vars
    /\ [][(config # <<>> /\ last'.op = "initialize")
            => last'.res = "AlreadyInitialized"]_vars
    /\ [][config # <<>>
            => config' # <<>> /\ config'[1].admin = config[1].admin]_vars

\* After the admin changed the treasury, someone else tried to initialize again.
C11_Witness ==
    /\ last.op = "initialize"
    /\ last.res = "AlreadyInitialized"
    /\ config # <<>>
    /\ last.caller # config[1].admin
    /\ config[1].treasury # config[1].admin

\* C12: update_fee_config returns the first failing of NotInitialized (no
\* config), NotAdmin (the caller is not the stored admin, even with a fee
\* rate out of range), InvalidFeeRate (fee_rate_bps > 1000); it changes the
\* config only when it returns Ok, and then stores the given rate under the
\* stored admin.
C12_UpdateFeeConfigErrorOrder ==
    [][last'.op = "update_fee_config"
         => /\ last'.res = FirstFailing(<<
                   <<config = <<>>, "NotInitialized">>,
                   <<config # <<>> /\ config[1].admin # last'.caller, "NotAdmin">>,
                   <<last'.bps > MAX_FEE_RATE_BPS, "InvalidFeeRate">> >>)
            /\ last'.res # "Ok" => config' = config
            /\ last'.res = "Ok"
                 => /\ config'[1].admin = config[1].admin
                    /\ config'[1].fee_rate_bps = last'.bps]_vars

\* Someone who is not the admin asked for a fee rate out of range: NotAdmin.
C12_Witness ==
    /\ last.op = "update_fee_config"
    /\ last.res = "NotAdmin"
    /\ last.bps > MAX_FEE_RATE_BPS
    /\ config # <<>>

\* C13: a successful top_up_stream(amount) at time t increases
\* deposited_amount by amount - floor(amount * fee_rate_bps / 10000) (by
\* amount when no fee applies), sets last_update_time to t and leaves every
\* other field of the stream as it was.
C13_TopUpEffect ==
    Done("top_up_stream") =>
        LET fee == (last.amount * FeeRateNow) \div 10000
        IN  streams[last.id] =
                [last.pre[1] EXCEPT !.deposited_amount = @ + (last.amount - fee),
                                    !.last_update_time = now]

\* A top-up under a fee, later than the stream's last update.
C13_Witness ==
    /\ Done("top_up_stream")
    /\ last.fee > 0
    /\ now > last.pre[1].last_update_time
    /\ streams[last.id].deposited_amount > last.pre[1].deposited_amount

\* C14: stream ids start at 1, strictly increase in call order and are never
\* reused: the stored ids are always 1..stream_counter; a successful
\* create_stream returns stream_counter + 1, an id without a record, and
\* leaves every existing record as it was; nothing else (a failed
\* create_stream, a stream becoming inactive) moves the counter or the set of ids.
C14_StreamIdsNeverReused ==
    /\ [](DOMAIN streams = 1..stream_counter)
    /\ [][(last'.op = "create_stream" /\ last'.res = "Ok")
            => /\ last'.id = stream_counter + 1
               /\ last'.id \notin DOMAIN streams
               /\ stream_counter' = last'.id
               /\ DOMAIN streams' = DOMAIN streams \cup {last'.id}
               /\ \A i \in DOMAIN streams : streams'[i] = streams[i]]_vars
    /\ [][~(last'.op = "create_stream" /\ last'.res = "Ok")
            => /\ stream_counter' = stream_counter
               /\ DOMAIN streams' = DOMAIN streams]_vars

\* A second stream was created after the first had become inactive.
C14_Witness ==
    /\ Done("create_stream")
    /\ last.id = 2
    /\ ~streams[1].is_active
    /\ streams[2].is_active

\* The fee a committed call owes: floor(gross * fee_rate_bps / 10000) on a
\* create_stream or top_up_stream (0 without a config), nothing on any other.
FeeDue(call, cfg) ==
    IF call.res = "Ok" /\ call.op \in {"create_stream", "top_up_stream"} /\ cfg # <<>>
    THEN (call.amount * cfg[1].fee_rate_bps) \div 10000
    ELSE 0

\* C15 as stated: the treasury's balance changes only during create_stream
\* and top_up_stream, by floor(gross * fee_rate_bps / 10000); withdraw and
\* cancel_stream leave it as it was and pay the recipient and the sender the
\* full claimable and refund amounts.
C15_AsStated ==
    [][config # <<>>
         => balance'[config[1].treasury]
              = balance[config[1].treasury] + FeeDue(last', config)]_vars

\* The sender and the recipient of the stream a call works on.
PartiesOf(call, strs) ==
    IF call.res = "Ok" /\ call.op = "create_stream"
    THEN {strs[call.id].sender, strs[call.id].recipient}
    ELSE IF call.pre # <<>> THEN {call.pre[1].sender, call.pre[1].recipient}
    ELSE {}

\* C15 (amended): the contract transfers a fee only during create_stream and
\* top_up_stream, floor(gross * fee_rate_bps / 10000) (nothing without a
\* config or at rate 0); withdraw pays the recipient the full claimable and
\* cancel_stream pays the recipient the full accrued amount and the sender
\* the full rest; and the treasury's balance changes by exactly the fee in
\* every step in which the treasury is not itself the contract, the sender
\* or the recipient of the stream the call works on.
C15_FeeOnlyOnDeposits ==
    [][/\ last'.fee = FeeDue(last', config)
       /\ (config # <<>>
           /\ config[1].treasury \notin PartiesOf(last', streams') \cup {Contract})
            => balance'[config[1].treasury]
                 = balance[config[1].treasury] + last'.fee
       /\ (last'.op = "withdraw" /\ last'.res = "Ok")
            => /\ last'.paid = calculate_claimable(streams[last'.id], now)
               /\ balance'[last'.caller] = balance[last'.caller] + last'.paid
       /\ (last'.op = "cancel_stream" /\ last'.res = "Ok")
            => LET s == streams[last'.id]
               IN  /\ last'.paid = calculate_claimable(s, now)
                   /\ last'.refund
                        = s.deposited_amount - s.withdrawn_amount - last'.paid
                   /\ balance'[s.recipient] = balance[s.recipient] + last'.paid
                   /\ balance'[s.sender] = balance[s.sender] + last'.refund]_vars

\* A cancel that paid the recipient and refunded the sender under a positive
\* fee rate, the treasury holding the fee of the deposit and nothing more.
C15_Witness ==
    /\ Done("cancel_stream")
    /\ last.paid > 0
    /\ last.refund > 0
    /\ config # <<>>
    /\ config[1].fee_rate_bps > 0
    /\ last.fee = 0
    /\ config[1].treasury = "carol"
    /\ balance["carol"] = InitBalance + 1

C17_WithdrawEffect ==
    [][(last'.op = "withdraw" /\ last'.res = "Ok")
         => LET s == streams[last'.id]
                claimable == get_claimable_amount(last'.id)[1]
                remaining == s.deposited_amount - s.withdrawn_amount
            IN  /\ last'.paid = claimable
                /\ balance'[s.recipient] = balance[s.recipient] + claimable
                /\ balance'[Contract] = balance[Contract] - claimable
                /\ streams'[last'.id] =
                     [s EXCEPT !.withdrawn_amount = @ + claimable,
                               !.last_update_time = now,
                               !.is_active =
                                   s.withdrawn_amount + claimable < s.deposited_amount]
                /\ (now - s.last_update_time) * s.rate_per_second > remaining
                     => /\ claimable = remaining
                        /\ ~streams'[last'.id].is_active]_vars

\* A withdraw after more time than the remaining balance covers, from a
\* stream already withdrawn from: it paid the remaining balance and closed it.
C17_Witness ==
    /\ Done("withdraw")
    /\ last.pre[1].withdrawn_amount > 0
    /\ (now - last.pre[1].last_update_time) * last.pre[1].rate_per_second
         > last.pre[1].deposited_amount - last.pre[1].withdrawn_amount
    /\ last.paid = last.pre[1].deposited_amount - last.pre[1].withdrawn_amount
    /\ ~streams[last.id].is_active

\* C18: a top-up resets the accrual base without settling what had accrued:
\* right after a successful top_up_stream, at the same timestamp, the stream
\* is active with withdrawn_amount as before the top-up, get_claimable_amount
\* returns 0, and a withdraw by the recipient fails with InvalidAmount and
\* changes nothing, whatever was claimable just before the top-up.
C18_TopUpResetsAccrual ==
    /\ [](Done("top_up_stream") =>
            /\ get_claimable_amount(last.id) = <<0>>
            /\ streams[last.id].is_active
            /\ streams[last.id].withdrawn_amount = last.pre[1].withdrawn_amount
            /\ last.paid = 0)
    /\ [][(/\ Done("top_up_stream")
           /\ last'.op = "withdraw"
           /\ last'.id = last.id
           /\ last'.caller = streams[last.id].recipient)
            => /\ last'.res = "InvalidAmount"
               /\ streams' = streams
               /\ balance' = balance]_vars

\* The recipient's withdraw was refused at the timestamp of a top-up made
\* after the stream had started accruing, nothing withdrawn so far.
C18_Witness ==
    /\ last.op = "withdraw"
    /\ last.res = "InvalidAmount"
    /\ hist[last.id].topped
    /\ last.pre[1].withdrawn_amount = 0
    /\ last.pre[1].rate_per_second > 0
    /\ last.pre[1].last_update_time = now
    /\ now > last.pre[1].start_time

\* C19: across every transition of every stream, deposited_amount,
\* withdrawn_amount and last_update_time never decrease, and sender,
\* recipient, token_address, rate_per_second and start_time keep the values
\* set at creation; no record is ever removed.
C19_StreamMonotone ==
    [][\A id \in DOMAIN streams :
          /\ id \in DOMAIN streams'
          /\ streams'[id].deposited_amount >= streams[id].deposited_amount
          /\ streams'[id].withdrawn_amount >= streams[id].withdrawn_amount
          /\ streams'[id].last_update_time >= streams[id].last_update_time
          /\ streams'[id].sender = streams[id].sender
          /\ streams'[id].recipient = streams[id].recipient
          /\ streams'[id].token_address = streams[id].token_address
          /\ streams'[id].rate_per_second = streams[id].rate_per_second
          /\ streams'[id].start_time = streams[id].start_time]_vars

\* A stream that was topped up and, later, cancelled with a payment to the
\* recipient and a refund.
C19_Witness ==
    /\ Done("cancel_stream")
    /\ hist[last.id].topped
    /\ streams[last.id].deposited_amount > hist[last.id].net
    /\ streams[last.id].withdrawn_amount > 0
    /\ last.refund > 0
    /\ streams[last.id].last_update_time > last.pre[1].last_update_time
    /\ last.pre[1].last_update_time > streams[last.id].start_time

\* C20 as stated: for a stream created with net deposit D and duration d and
\* never topped up, the total paid to the recipient never exceeds
\* floor(D / d) * d at any time.
C20_AsStated ==
    \A id \in DOMAIN streams :
        ~hist[id].topped =>
            streams[id].withdrawn_amount
              <= (hist[id].net \div hist[id].duration) * hist[id].duration

\* C20 (amended): for a stream created with net deposit D and duration d and
\* never topped up, the total paid to the recipient up to elapsed time e since
\* creation never exceeds min(floor(D / d) * e, D); so it never exceeds
\* floor(D / d) * d while e <= d, and the remainder D mod d is paid only by a
\* withdrawal (or settlement) later than the duration.
C20_RemainderNotPaidWithinDuration ==
    \A id \in DOMAIN streams :
        ~hist[id].topped =>
            LET D == hist[id].net
                d == hist[id].duration
                e == now - streams[id].start_time
                paid == streams[id].withdrawn_amount
            IN  /\ paid <= Min((D \div d) * e, D)
                /\ e <= d => paid <= (D \div d) * d
                /\ paid > (D \div d) * d => streams[id].last_update_time
                                              > streams[id].start_time + d

\* A withdraw later than the duration drained a never-topped-up stream whose
\* rate had left a remainder: the remainder was paid out.
C20_Witness ==
    /\ Done("withdraw")
    /\ ~hist[last.id].topped
    /\ now - streams[last.id].start_time > hist[last.id].duration
    /\ streams[last.id].withdrawn_amount = hist[last.id].net
    /\ hist[last.id].net
         > (hist[last.id].net \div hist[last.id].duration) * hist[last.id].duration

\* What the active streams still owe: the sum of deposited_amount -
\* withdrawn_amount over the active records of `strs`.
RECURSIVE OwedUpTo(_, _)
OwedUpTo(strs, n) ==
    IF n = 0 THEN 0
    ELSE OwedUpTo(strs, n - 1)
         + (IF strs[n].is_active
            THEN strs[n].deposited_amount - strs[n].withdrawn_amount ELSE 0)

Owed(strs) == OwedUpTo(strs, Len(strs))

\* C21 as stated: in every reachable state the contract's custody balance
\* equals the sum over active streams of deposited_amount - withdrawn_amount.
C21_AsStated == balance[Contract] = Owed(streams)

\* What a committed call transfers from the contract to the contract itself:
\* the fee when the treasury is the contract's own address, and the payout
\* to a recipient that is the contract's own address.
SelfPaid(call, cfg, strs) ==
    (IF call.fee > 0 /\ cfg # <<>> /\ cfg[1].treasury = Contract
     THEN call.fee ELSE 0)
    + (IF call.paid > 0 /\ call.id \in DOMAIN strs
          /\ strs[call.id].recipient = Contract
       THEN call.paid ELSE 0)

\* C21 (amended): the custody balance is never below the sum over active
\* streams of deposited_amount - withdrawn_amount, so every withdraw and
\* cancel payout is covered (no payout ever fails for lack of custody); and
\* every step changes the custody balance by exactly the change of that sum,
\* except for what the step transfers from the contract to itself (a fee
\* under a treasury that is the contract's own address, a payout to a
\* recipient that is the contract's own address), which stays in custody.
\* So the two are equal as long as no such self-transfer was made.
C21_CustodyCoversStreams ==
    /\ [](balance[Contract] >= Owed(streams))
    /\ [](last.op \in {"withdraw", "cancel_stream"} => last.res # "Trap")
    /\ [][balance'[Contract] - Owed(streams')
            = balance[Contract] - Owed(streams)
              + SelfPaid(last', config, streams')]_vars

\* Two streams, one cancelled part-way and one still active and partly
\* withdrawn, with exactly the active one's remaining balance in custody.
C21_Witness ==
    /\ Len(streams) = 2
    /\ \E i, j \in DOMAIN streams :
          /\ ~streams[i].is_active
          /\ streams[i].withdrawn_amount < streams[i].deposited_amount
          /\ streams[j].is_active
    /\ balance[Contract] = Owed(streams)
    /\ balance[Contract] > 0

\* The stream was created with a net amount smaller than its duration.
ZeroRate(id) == id \in DOMAIN hist /\ hist[id].net < hist[id].duration

\* C22 as stated: a stream created with net amount smaller than duration has
\* rate_per_second = 0; at every later time its claimable amount is 0 and
\* every withdraw by its recipient fails with InvalidAmount.
C22_AsStated ==
    \A id \in DOMAIN streams :
        ZeroRate(id) =>
            /\ streams[id].rate_per_second = 0
            /\ get_claimable_amount(id) = <<0>>
            /\ (last.op = "withdraw" /\ last.id = id
                /\ last.caller = streams[id].recipient)
                 => last.res = "InvalidAmount"

\* C22 (amended): a stream created with net amount smaller than duration has
\* rate_per_second = 0 and is stored active; at every later time, topped up or
\* not, its claimable amount is 0, nothing has been withdrawn from it, and
\* every withdraw by its recipient fails: with InvalidAmount while the stream
\* is active, with StreamInactive once it has been cancelled.  It becomes
\* inactive, and tokens leave custody, only by a successful cancel_stream,
\* which refunds the whole deposit to the sender and pays the recipient
\* nothing.
C22_ZeroRateStream ==
    /\ [](\A id \in DOMAIN streams :
            ZeroRate(id) =>
                /\ streams[id].rate_per_second = 0
                /\ streams[id].withdrawn_amount = 0
                /\ get_claimable_amount(id) = <<0>>
                /\ (Done("create_stream") /\ last.id = id) => streams[id].is_active
                /\ (last.op = "withdraw" /\ last.id = id
                    /\ last.caller = streams[id].recipient)
                     => last.res = IF last.pre[1].is_active THEN "InvalidAmount"
                                   ELSE "StreamInactive")
    /\ [][\A id \in DOMAIN streams :
            (/\ ZeroRate(id)
             /\ \/ streams[id].is_active /\ ~streams'[id].is_active
                \/ balance'[Contract] < balance[Contract])
              => /\ last'.op = "cancel_stream"
                 /\ last'.res = "Ok"
                 /\ last'.id = id
                 /\ last'.paid = 0
                 /\ last'.refund = streams[id].deposited_amount
                 /\ balance'[streams[id].recipient] = balance[streams[id].recipient]
                 /\ balance'[streams[id].sender]
                      = balance[streams[id].sender] + streams[id].deposited_amount
                 /\ balance'[Contract]
                      = balance[Contract] - streams[id].deposited_amount]_vars

\* A zero-rate stream, topped up, was cancelled at a later time: the whole
\* deposit went back to the sender.
C22_Witness ==
    /\ Done("cancel_stream")
    /\ ZeroRate(last.id)
    /\ hist[last.id].topped
    /\ now > streams[last.id].start_time
    /\ last.paid = 0
    /\ last.refund = streams[last.id].deposited_amount
    /\ last.refund > SoloTopUpAmount

\* The stream exists, is active and has a positive rate.
Streaming(id) ==
    /\ id \in DOMAIN streams
    /\ streams[id].is_active
    /\ streams[id].rate_per_second > 0

\* The stream has paid out all it held and is closed.
Drained(id) ==
    /\ id \in DOMAIN streams
    /\ streams[id].withdrawn_amount = streams[id].deposited_amount
    /\ ~streams[id].is_active

\* C23: an active stream with rate_per_second > 0 whose sender does not
\* cancel it (and tops it up only finitely often) eventually reaches
\* withdrawn_amount = deposited_amount and is_active = FALSE, when the clock
\* keeps advancing and the recipient keeps calling withdraw.
C23_EventualDrain == \A id \in StreamIds : Streaming(id) ~> Drained(id)

\* A stream that had been topped up was drained by the last of several
\* withdrawals, the remainder of its rate included.
C23_Witness ==
    /\ Done("withdraw")
    /\ Drained(last.id)
    /\ hist[last.id].topped
    /\ last.pre[1].withdrawn_amount > 0
    /\ streams[last.id].deposited_amount
         > streams[last.id].rate_per_second * hist[last.id].duration
====
